---- MODULE Spec2Model ----
(***************************************************************************)
(* Expense-tracking REST API (users, categories, currencies, records) in   *)
(* its three variants:                                                     *)
(*   "mem"  - src/src/routes.ts      module-level arrays, synchronous      *)
(*   "db"   - src/unnamed/part_001   Prisma store, no authentication       *)
(*   "auth" - src/unnamed/part_002   Prisma store, JWT bearer middleware   *)
(* The persistent store obeys the constraints of src/prisma/migrations.    *)
(* A request handler is a sequence of steps; every `await prisma...` is    *)
(* one step, so the store calls of concurrent requests interleave.         *)
(***************************************************************************)
EXTENDS Integers, Sequences, FiniteSets, TLC

\* ------------------------------------------------------------------ bounds
\* rows a table is given over a run (ids drawn from its sequence)
MaxUsers == 2
MaxCategories == 2
MaxCurrencies == 2
MaxRecords == 2
\* the same for users, categories and currencies while requests of the
\* whole API run concurrently
RaceUsers == 1
RaceCategories == 1
RaceCurrencies == 1
\* requests in flight at once
MaxInflight == 2
\* tokens POST /auth/login signs over a run
MaxTokens == 1
\* times the clock advances
MaxTicks == 3

\* ------------------------------------------------------- program constants
\* jwt.sign(..., { expiresIn: "1h" }): seconds
ExpiresIn == 3600
\* password.length < 6 is rejected at signup
MinPasswordLength == 6

\* the clock advances in steps of half a token lifetime
TickSeconds == ExpiresIn \div 2

\* ids are SERIAL / counters starting at 1; 0 stands for null / undefined
NoId == 0
\* a body or query field that is absent (or, where the handler does not tell
\* the two apart, not a number)
Undefined == -1
\* a value that the request supplies and that is not a number
NotANumber == -2

Variants == {"mem", "db", "auth"}

VARIABLES
  variant,      \* which of the three route modules is mounted
  users,        \* User rows
  categories,   \* Category rows
  currencies,   \* Currency rows
  records,      \* Record rows
  nextId,       \* the id sequences (nextUserId.. / SERIAL), per table
  procs,        \* requests in flight: slot -> handler position and locals
  resp,         \* the response sent by the last step (NoResp if none)
  now,          \* wall clock, seconds
  issued        \* tokens signed by POST /auth/login so far

vars == <<variant, users, categories, currencies, records, nextId, procs, resp, now, issued>>

store == <<users, categories, currencies, records>>

\* ------------------------------------------------------------ strings
\* An email is a sequence of characters; only the characters that matter to
\* trim() and toLowerCase() are distinguished.
SP == " "

RECURSIVE TrimStart(_)
TrimStart(s) == IF s # <<>> /\ Head(s) = SP THEN TrimStart(Tail(s)) ELSE s

RECURSIVE TrimEnd(_)
TrimEnd(s) == IF s # <<>> /\ s[Len(s)] = SP THEN TrimEnd(SubSeq(s, 1, Len(s) - 1)) ELSE s

Trim(s) == TrimEnd(TrimStart(s))

LowerChar(c) == IF c = "A" THEN "a" ELSE IF c = "B" THEN "b" ELSE c

ToLowerCase(s) == [i \in 1..Len(s) |-> LowerChar(s[i])]

NormalizeEmail(email) == ToLowerCase(Trim(email))

\* bcrypt: the hash remembers what it was made from; compare() recomputes
BcryptHash(password) == [hashOf |-> password]

BcryptCompare(password, hash) == hash.hashOf = password

NoEmail == <<>>
NoHash == [hashOf |-> ""]

\* ------------------------------------------------------------ the store
UserIds == {u.id : u \in users}
CategoryIds == {c.id : c \in categories}
CurrencyIds == {c.id : c \in currencies}
RecordIds == {r.id : r \in records}

UserById(id) == CHOOSE u \in users : u.id = id
UserByEmail(email) == CHOOSE u \in users : u.email = email
EmailTaken(email) == \E u \in users : u.email = email

\* a schema whose Record.currencyId has no foreign key
RecordFkWithoutCurrency(userId, categoryId, currencyId) ==
  /\ userId \in UserIds
  /\ categoryId \in CategoryIds

\* Record_userId_fkey, Record_categoryId_fkey, Record_currencyId_fkey
RecordFkOk(userId, categoryId, currencyId) ==
  /\ userId \in UserIds
  /\ categoryId \in CategoryIds
  /\ currencyId \in CurrencyIds

\* ON DELETE RESTRICT: a parent row that a Record references cannot go
RestrictUser(userId) == ~ \E r \in records : r.userId = userId

RestrictCategory(categoryId) == ~ \E r \in records : r.categoryId = categoryId

RestrictCurrency(currencyId) == ~ \E r \in records : r.currencyId = currencyId

\* a delete of a currency that leaves the users' defaults as they are
SetNullDefaultCurrencySkipped(currencyId) == users

\* User_defaultCurrencyId_fkey ON DELETE SET NULL
SetNullDefaultCurrency(currencyId) ==
  {IF u.defaultCurrencyId = currencyId THEN [u EXCEPT !.defaultCurrencyId = NoId] ELSE u : u \in users}

\* User_email_key (the column exists in the auth variant's schema only)
UserEmailUnique(email) == ~ EmailTaken(email)

\* Currency_code_key
CurrencyCodeUnique(code) == ~ \E c \in currencies : c.code = code

\* ------------------------------------------------------------ responses
NoToken == [k |-> "none"]
NoResp == [status |-> 0]

Reply(req, status, message) ==
  [req |-> req, status |-> status, message |-> message, data |-> {}, token |-> NoToken]

ReplyData(req, status, data) ==
  [req |-> req, status |-> status, message |-> "", data |-> data, token |-> NoToken]

\* app.use((err, req, res, next) => res.status(500)...): what a rejected
\* store call (a thrown Prisma error) turns into
InternalError(req) == Reply(req, 500, "Internal server error")

\* express answers 404 when no route matches
NoRoute(req) == Reply(req, 404, "Cannot " \o req.route)

\* ------------------------------------------------- tokens and the header
\* A header value is a sequence of atoms: a space, a word, or a JWT.
Space == [k |-> "sp"]
Word(w) == [k |-> "word", w |-> w]
Jwt(userId, exp, sig) == [k |-> "jwt", userId |-> userId, exp |-> exp, sig |-> sig]

\* const JWT_SECRET: tokens signed with it carry sig = "server"
JwtSign(userId, iat) == Jwt(userId, iat + ExpiresIn, "server")

\* a verification that ignores the exp claim
JwtVerifyIgnoreExpiration(token, clock) ==
  IF Len(token) # 1 \/ token[1].k # "jwt" THEN [ok |-> FALSE, name |-> "JsonWebTokenError", userId |-> NoId]
  ELSE IF token[1].sig # "server" THEN [ok |-> FALSE, name |-> "JsonWebTokenError", userId |-> NoId]
  ELSE [ok |-> TRUE, name |-> "", userId |-> token[1].userId]

\* jwt.verify: format, then signature, then expiry
JwtVerify(token, clock) ==
  IF Len(token) # 1 \/ token[1].k # "jwt" THEN [ok |-> FALSE, name |-> "JsonWebTokenError", userId |-> NoId]
  ELSE IF token[1].sig # "server" THEN [ok |-> FALSE, name |-> "JsonWebTokenError", userId |-> NoId]
  ELSE IF clock >= token[1].exp THEN [ok |-> FALSE, name |-> "TokenExpiredError", userId |-> NoId]
  ELSE [ok |-> TRUE, name |-> "", userId |-> token[1].userId]

\* String.prototype.split(" "): every space separates, empty parts are kept
RECURSIVE Split(_)
Split(s) ==
  IF \A i \in 1..Len(s) : s[i] # Space THEN <<s>>
  ELSE LET i == CHOOSE j \in 1..Len(s) : s[j] = Space /\ \A l \in 1..(j - 1) : s[l] # Space
       IN <<SubSeq(s, 1, i - 1)>> \o Split(SubSeq(s, i + 1, Len(s)))

\* authMiddleware: [next |-> TRUE, userId] or a 401 with its error code
AuthPass(userId) == [next |-> TRUE, userId |-> userId, status |-> 0, error |-> ""]
AuthReject(error) == [next |-> FALSE, userId |-> NoId, status |-> 401, error |-> error]

\* a middleware that takes the token of any scheme
authMiddlewareAnyScheme(req, clock) ==
  IF ~ req.hasAuth \/ req.auth = <<>> THEN AuthReject("authorization_required")
  ELSE LET parts == Split(req.auth)
           hasToken == Len(parts) >= 2 /\ parts[2] # <<>>
       IN IF ~ hasToken THEN AuthReject("invalid_token")
          ELSE LET v == JwtVerify(parts[2], clock)
               IN IF v.ok THEN AuthPass(v.userId)
                  ELSE IF v.name = "TokenExpiredError" THEN AuthReject("token_expired")
                  ELSE AuthReject("invalid_token")

authMiddleware(req, clock) ==
  IF ~ req.hasAuth \/ req.auth = <<>> THEN AuthReject("authorization_required")
  ELSE LET parts == Split(req.auth)
           scheme == parts[1]
           hasToken == Len(parts) >= 2 /\ parts[2] # <<>>
       IN IF scheme # <<Word("Bearer")>> \/ ~ hasToken THEN AuthReject("invalid_token")
          ELSE LET v == JwtVerify(parts[2], clock)
               IN IF v.ok THEN AuthPass(v.userId)
                  ELSE IF v.name = "TokenExpiredError" THEN AuthReject("token_expired")
                  ELSE AuthReject("invalid_token")

\* routes registered before router.use(authMiddleware)
PublicRoutes == {"GET /healthcheck", "POST /user", "POST /auth/login"}

\* ------------------------------------------------------------ processes
NoUser == [id |-> NoId]

Idle == [pc |-> "idle", req |-> [route |-> ""], user |-> NoUser, userId |-> NoId, finalCurrencyId |-> NoId, count |-> 0]

Slots == DOMAIN procs

Concurrent == Cardinality(Slots) > 1

LimUsers == IF Concurrent THEN RaceUsers ELSE MaxUsers
LimCategories == IF Concurrent THEN RaceCategories ELSE MaxCategories
LimCurrencies == IF Concurrent THEN RaceCurrencies ELSE MaxCurrencies
LimRecords == MaxRecords

\* requests of a route that are being handled
Inflight(route) == {q \in Slots : procs[q].pc # "idle" /\ procs[q].req.route = route}

\* a new request takes the first free slot
FreeSlot(p) ==
  /\ resp = NoResp
  /\ procs[p].pc = "idle"
  /\ \A q \in Slots : q < p => procs[q].pc # "idle"

\* The requests that overlap one another: those that write a parent row or
\* a Record. A request of another route is served while nothing else runs.
Racing == {"POST /user", "DELETE /user", "PATCH /user/currency", "DELETE /category", "DELETE /currency", "POST /record"}

CanStart(p, route) ==
  /\ FreeSlot(p)
  /\ route \notin Racing => \A q \in Slots : procs[q].pc = "idle"
  /\ \A q \in Slots : procs[q].pc # "idle" => procs[q].req.route \in Racing

At(p, pc) == resp = NoResp /\ procs[p].pc = pc

\* res.status(..).json(..): the handler returns
Finish(p, r) == procs' = [procs EXCEPT ![p] = Idle] /\ resp' = r

\* the handler suspends at its next await
Goto(p, st) == procs' = [procs EXCEPT ![p] = st] /\ resp' = NoResp

\* ------------------------------------------------------------ requests
\* values a numeric path, query or body field can take: an id, or Undefined
IdInputs(max) == (1..max) \cup {Undefined}

\* spellings of one address, an absent one, and (at login) another address
SignupEmails == {<<>>, <<"a">>, <<"A">>, <<SP, "a", SP>>}
LoginEmails == SignupEmails \cup {<<"b">>}
Names == {"", "Ann"}
SignupPasswords == {"", "short", "secret"}
LoginPasswords == {"", "secret", "letmein"}

NoAuth == [hasAuth |-> FALSE, auth |-> <<>>]
Bearer(token) == [hasAuth |-> TRUE, auth |-> <<Word("Bearer"), Space, token>>]

\* a token a client can make up: right shape, not signed by the server
ForgedTokens == {Jwt(1, ExpiresIn, "forged")}

\* headers a client sends to a protected route: none, a token it was
\* given, a forged one
HeaderPool ==
  IF variant = "auth"
  THEN {NoAuth} \cup {Bearer(t) : t \in issued} \cup {Bearer(t) : t \in ForgedTokens}
  ELSE {NoAuth}

\* every shape of header the middleware tells apart
AllHeaders ==
  LET tokens == issued \cup ForgedTokens \cup {Word("garbage")}
  IN {NoAuth, [hasAuth |-> TRUE, auth |-> <<>>]}
     \cup {[hasAuth |-> TRUE, auth |-> <<Word("Bearer")>>]}
     \cup {[hasAuth |-> TRUE, auth |-> <<Word(w), Space, t>>] : w \in {"Bearer", "bearer", "Basic"}, t \in tokens}
     \cup {[hasAuth |-> TRUE, auth |-> <<Word("Bearer"), Space, Space, t>>] : t \in issued}
     \cup {[hasAuth |-> TRUE, auth |-> <<Word("Bearer"), Space, t, Space, Word("x")>>] : t \in issued}
     \cup {[hasAuth |-> TRUE, auth |-> <<t>>] : t \in issued}

Req(route, h, fields) == [route |-> route, hasAuth |-> h.hasAuth, auth |-> h.auth, f |-> fields]

\* The requests to a route behind the middleware: every body in `fields`
\* with a token the client was given, and the body `probe` with the other
\* headers of the pool.
Requests(route, fields, probe) ==
  IF variant = "auth"
  THEN {Req(route, Bearer(t), f) : t \in issued, f \in fields}
       \cup {Req(route, h, probe) : h \in HeaderPool \ {Bearer(t) : t \in issued}}
  ELSE {Req(route, NoAuth, f) : f \in fields}

\* the routes each variant registers
Routes ==
  LET mem == {"GET /healthcheck", "POST /user", "DELETE /user", "POST /category",
              "DELETE /category", "POST /record", "GET /record", "DELETE /record"}
      db == mem \cup {"PATCH /user/currency", "POST /currency", "DELETE /currency"}
  IN IF variant = "mem" THEN mem ELSE IF variant = "db" THEN db ELSE db \cup {"POST /auth/login"}

\* a router whose middleware is mounted after the DELETE routes
GatedAfterDeletes(route) ==
  variant = "auth" /\ route \notin PublicRoutes \cup {"DELETE /user", "DELETE /category", "DELETE /currency", "DELETE /record"}

\* router.use(authMiddleware) stands after the public routes and before
\* every other one
Gated(route) == variant = "auth" /\ route \notin PublicRoutes

\* Dispatch of a request: the middleware, if the route stands behind it, then
\* the route's handler. Admitted says the handler is run, Admit is the
\* request's process record as the handler gets it (with req.userId attached
\* by the middleware), Refusal the response when it is not run.
Admitted(req) ==
  /\ Gated(req.route) => authMiddleware(req, now).next
  /\ req.route \in Routes

Admit(req) ==
  [Idle EXCEPT !.req = req,
               !.userId = IF Gated(req.route) THEN authMiddleware(req, now).userId ELSE NoId]

Refusal(req) ==
  LET mw == authMiddleware(req, now)
  IN IF Gated(req.route) /\ ~ mw.next THEN Reply(req, mw.status, mw.error) ELSE NoRoute(req)

Init ==
  /\ variant \in Variants
  /\ users = {} /\ categories = {} /\ currencies = {} /\ records = {}
  /\ nextId = [user |-> 1, category |-> 1, currency |-> 1, record |-> 1]
  /\ procs = [p \in 1..MaxInflight |-> Idle]
  /\ resp = NoResp
  /\ now = 0
  /\ issued = {}

\* one request at a time
InitSeq ==
  /\ variant \in Variants
  /\ users = {} /\ categories = {} /\ currencies = {} /\ records = {}
  /\ nextId = [user |-> 1, category |-> 1, currency |-> 1, record |-> 1]
  /\ procs = [p \in 1..1 |-> Idle]
  /\ resp = NoResp
  /\ now = 0
  /\ issued = {}

\* ------------------------------------------------------------ GET /healthcheck
BeginHealthcheck(p) ==
  /\ CanStart(p, "GET /healthcheck")
  /\ LET req == Req("GET /healthcheck", NoAuth, [none |-> 0])
     IN IF Admitted(req) THEN Finish(p, Reply(req, 200, "ok")) ELSE Finish(p, Refusal(req))
  /\ UNCHANGED <<variant, store, nextId, now, issued>>

\* ------------------------------------------------------------ POST /user
ProjectUser(u) == [id |-> u.id, name |-> u.name, email |-> u.email, defaultCurrencyId |-> u.defaultCurrencyId]

\* a create that numbers the new row by the rows there are
NewUserCounted(name, email, hash) ==
  [id |-> Cardinality(users) + 1, name |-> name, email |-> email, passwordHash |-> hash, defaultCurrencyId |-> NoId]

NewUser(name, email, hash) ==
  [id |-> nextId.user, name |-> name, email |-> email, passwordHash |-> hash, defaultCurrencyId |-> NoId]

ReqPostUser ==
  IF variant = "auth"
  THEN {Req("POST /user", NoAuth, [name |-> n, email |-> <<"a">>, password |-> "secret"]) : n \in Names}
       \cup {Req("POST /user", NoAuth, [name |-> "Ann", email |-> e, password |-> "secret"]) : e \in SignupEmails}
       \cup {Req("POST /user", NoAuth, [name |-> "Ann", email |-> <<"a">>, password |-> pw]) : pw \in SignupPasswords}
  ELSE {Req("POST /user", NoAuth, [name |-> n, email |-> <<>>, password |-> ""]) : n \in Names}

PostUserSync(p, st) ==
  LET req == st.req
  IN IF req.f.name = "" THEN Finish(p, Reply(req, 400, "Field 'name' is required")) /\ UNCHANGED <<users, nextId>>
     ELSE IF variant = "mem"
     THEN LET u == NewUser(req.f.name, NoEmail, NoHash)
          IN /\ users' = users \cup {u}
             /\ nextId' = [nextId EXCEPT !.user = @ + 1]
             /\ Finish(p, ReplyData(req, 201, {[id |-> u.id, name |-> u.name]}))
     ELSE IF variant = "db" THEN Goto(p, [st EXCEPT !.pc = "pu_create"]) /\ UNCHANGED <<users, nextId>>
     ELSE IF req.f.email = <<>> THEN Finish(p, Reply(req, 400, "Field 'email' is required")) /\ UNCHANGED <<users, nextId>>
     ELSE IF Len(req.f.password) < MinPasswordLength
     THEN Finish(p, Reply(req, 400, "Password must be at least 6 characters long")) /\ UNCHANGED <<users, nextId>>
     ELSE Goto(p, [st EXCEPT !.pc = "pu_find"]) /\ UNCHANGED <<users, nextId>>

BeginPostUser(p) ==
  /\ CanStart(p, "POST /user")
  /\ nextId.user + Cardinality(Inflight("POST /user")) <= LimUsers
  /\ \E req \in ReqPostUser :
       IF Admitted(req) THEN PostUserSync(p, Admit(req)) ELSE Finish(p, Refusal(req)) /\ UNCHANGED <<users, nextId>>
  /\ UNCHANGED <<variant, categories, currencies, records, now, issued>>

\* const existing = await prisma.user.findUnique({ where: { email } })
PostUserFind(p) ==
  /\ At(p, "pu_find")
  /\ LET req == procs[p].req
     IN IF EmailTaken(NormalizeEmail(req.f.email))
        THEN Finish(p, Reply(req, 400, "User with this email already exists"))
        ELSE Goto(p, [procs[p] EXCEPT !.pc = "pu_create"])
  /\ UNCHANGED <<variant, store, nextId, now, issued>>

\* await prisma.user.create(...): the id is drawn from the sequence before
\* the unique index is checked, so a rejected insert still consumes it
PostUserCreate(p) ==
  /\ At(p, "pu_create")
  /\ LET req == procs[p].req
         u == IF variant = "auth"
              THEN NewUser(req.f.name, NormalizeEmail(req.f.email), BcryptHash(req.f.password))
              ELSE NewUser(req.f.name, NoEmail, NoHash)
     IN /\ nextId' = [nextId EXCEPT !.user = @ + 1]
        /\ IF variant = "auth" /\ ~ UserEmailUnique(u.email)
           THEN Finish(p, InternalError(req)) /\ UNCHANGED users
           ELSE /\ users' = users \cup {u}
                /\ Finish(p, ReplyData(req, 201, {IF variant = "auth" THEN ProjectUser(u) ELSE u}))
  /\ UNCHANGED <<variant, categories, currencies, records, now, issued>>

\* ------------------------------------------------------------ POST /auth/login
ReqLogin ==
  {Req("POST /auth/login", NoAuth, [email |-> e, password |-> pw]) : e \in LoginEmails \ {<<>>}, pw \in LoginPasswords \ {""}}
  \cup {Req("POST /auth/login", NoAuth, [email |-> <<>>, password |-> "secret"]),
        Req("POST /auth/login", NoAuth, [email |-> <<"a">>, password |-> ""])}

LoginSync(p, st) ==
  IF st.req.f.email = <<>> \/ st.req.f.password = ""
  THEN Finish(p, Reply(st.req, 400, "Email and password are required"))
  ELSE Goto(p, [st EXCEPT !.pc = "li_find"])

BeginLogin(p) ==
  /\ CanStart(p, "POST /auth/login")
  /\ Cardinality(issued) + Cardinality(Inflight("POST /auth/login")) < MaxTokens
  /\ \E req \in ReqLogin :
       IF Admitted(req) THEN LoginSync(p, Admit(req)) ELSE Finish(p, Refusal(req))
  /\ UNCHANGED <<variant, store, nextId, now, issued>>

InvalidCredentials(req) == Reply(req, 401, "Invalid email or password")

\* a login that tells an unknown email apart
UserNotFound(req) == Reply(req, 404, "User not found")

\* if (!user) return res.status(401)...
UserAbsent(req) == InvalidCredentials(req)

\* findUnique by email, bcrypt.compare, jwt.sign
LoginFind(p) ==
  /\ At(p, "li_find")
  /\ LET req == procs[p].req
         email == NormalizeEmail(req.f.email)
     IN IF ~ EmailTaken(email) THEN Finish(p, UserAbsent(req)) /\ UNCHANGED issued
        ELSE LET user == UserByEmail(email)
             IN IF ~ BcryptCompare(req.f.password, user.passwordHash)
                THEN Finish(p, InvalidCredentials(req)) /\ UNCHANGED issued
                ELSE LET token == JwtSign(user.id, now)
                     IN /\ issued' = issued \cup {token}
                        /\ Finish(p, [req |-> req, status |-> 200, message |-> "",
                                      data |-> {ProjectUser(user)}, token |-> token])
  /\ UNCHANGED <<variant, store, nextId, now>>

\* ------------------------------------------------------------ DELETE /user/:userId
ReqDeleteUser == Requests("DELETE /user", {[userId |-> u] : u \in IdInputs(LimUsers)}, [userId |-> 1])

\* the store calls the handler makes after it found the user
DeleteUserPlan == IF variant = "db" THEN "du_deleteMany" ELSE "du_delete"

DeleteUserSync(p, st) ==
  LET req == st.req
  IN IF req.f.userId = Undefined THEN Finish(p, Reply(req, 400, "Invalid user id")) /\ UNCHANGED <<users, records>>
     ELSE IF variant = "mem"
     THEN IF req.f.userId \notin UserIds
          THEN Finish(p, Reply(req, 404, "User not found")) /\ UNCHANGED <<users, records>>
          ELSE /\ users' = {u \in users : u.id # req.f.userId}
               /\ records' = {r \in records : r.userId # req.f.userId}
               /\ Finish(p, Reply(req, 204, ""))
     ELSE Goto(p, [st EXCEPT !.pc = "du_find"]) /\ UNCHANGED <<users, records>>

BeginDeleteUser(p) ==
  /\ CanStart(p, "DELETE /user")
  /\ \E req \in ReqDeleteUser :
       IF Admitted(req) THEN DeleteUserSync(p, Admit(req)) ELSE Finish(p, Refusal(req)) /\ UNCHANGED <<users, records>>
  /\ UNCHANGED <<variant, categories, currencies, nextId, now, issued>>

DeleteUserFind(p) ==
  /\ At(p, "du_find")
  /\ IF procs[p].req.f.userId \notin UserIds
     THEN Finish(p, Reply(procs[p].req, 404, "User not found"))
     ELSE Goto(p, [procs[p] EXCEPT !.pc = DeleteUserPlan])
  /\ UNCHANGED <<variant, store, nextId, now, issued>>

\* await prisma.record.deleteMany({ where: { userId } })
DeleteUserRecords(p) ==
  /\ At(p, "du_deleteMany")
  /\ records' = {r \in records : r.userId # procs[p].req.f.userId}
  /\ Goto(p, [procs[p] EXCEPT !.pc = "du_delete", !.count = Cardinality(records \ records')])
  /\ UNCHANGED <<variant, users, categories, currencies, nextId, now, issued>>

\* await prisma.user.delete(...): rejected when the row is gone or a Record
\* still references it
DeleteUserRow(p) ==
  /\ At(p, "du_delete")
  /\ LET req == procs[p].req
     IN IF req.f.userId \in UserIds /\ RestrictUser(req.f.userId)
        THEN users' = {u \in users : u.id # req.f.userId} /\ Finish(p, Reply(req, 204, ""))
        ELSE UNCHANGED users /\ Finish(p, InternalError(req))
  /\ UNCHANGED <<variant, categories, currencies, records, nextId, now, issued>>

\* ------------------------------------------------------------ PATCH /user/:userId/currency
ReqPatchCurrency ==
  Requests("PATCH /user/currency",
           {[userId |-> u, currencyId |-> c] : u \in IdInputs(LimUsers), c \in IdInputs(LimCurrencies)},
           [userId |-> 1, currencyId |-> 1])

PatchCurrencySync(p, st) ==
  LET req == st.req
  IN IF req.f.userId = Undefined THEN Finish(p, Reply(req, 400, "Invalid user id"))
     ELSE IF req.f.currencyId = Undefined
     THEN Finish(p, Reply(req, 400, IF variant = "db" THEN "Field 'currencyId' is required and must be number"
                                    ELSE "Invalid currency id"))
     ELSE Goto(p, [st EXCEPT !.pc = "pc_findUser"])

BeginPatchCurrency(p) ==
  /\ CanStart(p, "PATCH /user/currency")
  /\ \E req \in ReqPatchCurrency :
       IF Admitted(req) THEN PatchCurrencySync(p, Admit(req)) ELSE Finish(p, Refusal(req))
  /\ UNCHANGED <<variant, store, nextId, now, issued>>

PatchCurrencyFindUser(p) ==
  /\ At(p, "pc_findUser")
  /\ IF procs[p].req.f.userId \notin UserIds
     THEN Finish(p, Reply(procs[p].req, 404, "User not found"))
     ELSE Goto(p, [procs[p] EXCEPT !.pc = "pc_findCurrency"])
  /\ UNCHANGED <<variant, store, nextId, now, issued>>

CurrencyMissing(req) ==
  IF variant = "db" THEN Reply(req, 404, "Currency not found") ELSE Reply(req, 400, "Currency does not exist")

PatchCurrencyFindCurrency(p) ==
  /\ At(p, "pc_findCurrency")
  /\ IF procs[p].req.f.currencyId \notin CurrencyIds
     THEN Finish(p, CurrencyMissing(procs[p].req))
     ELSE Goto(p, [procs[p] EXCEPT !.pc = "pc_update"])
  /\ UNCHANGED <<variant, store, nextId, now, issued>>

\* await prisma.user.update(...): rejected when the user is gone or the
\* currency is (User_defaultCurrencyId_fkey)
PatchCurrencyUpdate(p) ==
  /\ At(p, "pc_update")
  /\ LET req == procs[p].req
     IN IF req.f.userId \in UserIds /\ req.f.currencyId \in CurrencyIds
        THEN LET updated == [UserById(req.f.userId) EXCEPT !.defaultCurrencyId = req.f.currencyId]
             IN /\ users' = {IF u.id = req.f.userId THEN updated ELSE u : u \in users}
                /\ Finish(p, ReplyData(req, 200, {IF variant = "auth" THEN ProjectUser(updated) ELSE updated}))
        ELSE UNCHANGED users /\ Finish(p, InternalError(req))
  /\ UNCHANGED <<variant, categories, currencies, records, nextId, now, issued>>

\* ------------------------------------------------------------ POST /category
ReqPostCategory == Requests("POST /category", {[name |-> n] : n \in {"", "Food"}}, [name |-> "Food"])

NewCategory(name) == [id |-> nextId.category, name |-> name]

PostCategorySync(p, st) ==
  LET req == st.req
  IN IF req.f.name = "" THEN Finish(p, Reply(req, 400, "Field 'name' is required")) /\ UNCHANGED <<categories, nextId>>
     ELSE IF variant = "mem"
     THEN /\ categories' = categories \cup {NewCategory(req.f.name)}
          /\ nextId' = [nextId EXCEPT !.category = @ + 1]
          /\ Finish(p, ReplyData(req, 201, {NewCategory(req.f.name)}))
     ELSE Goto(p, [st EXCEPT !.pc = "pcat_create"]) /\ UNCHANGED <<categories, nextId>>

BeginPostCategory(p) ==
  /\ CanStart(p, "POST /category")
  /\ nextId.category + Cardinality(Inflight("POST /category")) <= LimCategories
  /\ \E req \in ReqPostCategory :
       IF Admitted(req) THEN PostCategorySync(p, Admit(req)) ELSE Finish(p, Refusal(req)) /\ UNCHANGED <<categories, nextId>>
  /\ UNCHANGED <<variant, users, currencies, records, now, issued>>

PostCategoryCreate(p) ==
  /\ At(p, "pcat_create")
  /\ categories' = categories \cup {NewCategory(procs[p].req.f.name)}
  /\ nextId' = [nextId EXCEPT !.category = @ + 1]
  /\ Finish(p, ReplyData(procs[p].req, 201, {NewCategory(procs[p].req.f.name)}))
  /\ UNCHANGED <<variant, users, currencies, records, now, issued>>

\* ------------------------------------------------------------ DELETE /category?id=
ReqDeleteCategory == Requests("DELETE /category", {[id |-> c] : c \in IdInputs(LimCategories)}, [id |-> 1])

DeleteCategorySync(p, st) ==
  LET req == st.req
  IN IF req.f.id = Undefined
     THEN Finish(p, Reply(req, 400, "Query parameter 'id' is required")) /\ UNCHANGED <<categories, records>>
     ELSE IF variant = "mem"
     THEN IF req.f.id \notin CategoryIds
          THEN Finish(p, Reply(req, 404, "Category not found")) /\ UNCHANGED <<categories, records>>
          ELSE /\ categories' = {c \in categories : c.id # req.f.id}
               /\ records' = {r \in records : r.categoryId # req.f.id}
               /\ Finish(p, Reply(req, 204, ""))
     ELSE Goto(p, [st EXCEPT !.pc = "dc_find"]) /\ UNCHANGED <<categories, records>>

BeginDeleteCategory(p) ==
  /\ CanStart(p, "DELETE /category")
  /\ \E req \in ReqDeleteCategory :
       IF Admitted(req) THEN DeleteCategorySync(p, Admit(req)) ELSE Finish(p, Refusal(req)) /\ UNCHANGED <<categories, records>>
  /\ UNCHANGED <<variant, users, currencies, nextId, now, issued>>

DeleteCategoryFind(p) ==
  /\ At(p, "dc_find")
  /\ IF procs[p].req.f.id \notin CategoryIds
     THEN Finish(p, Reply(procs[p].req, 404, "Category not found"))
     ELSE Goto(p, [procs[p] EXCEPT !.pc = "dc_deleteMany"])
  /\ UNCHANGED <<variant, store, nextId, now, issued>>

\* a deleteMany whose where clause is missing
DeleteCategoryRecordsAll(p) ==
  /\ At(p, "dc_deleteMany")
  /\ records' = {}
  /\ Goto(p, [procs[p] EXCEPT !.pc = "dc_delete", !.count = Cardinality(records \ records')])
  /\ UNCHANGED <<variant, users, categories, currencies, nextId, now, issued>>

\* await prisma.record.deleteMany({ where: { categoryId } })
DeleteCategoryRecords(p) ==
  /\ At(p, "dc_deleteMany")
  /\ records' = {r \in records : r.categoryId # procs[p].req.f.id}
  /\ Goto(p, [procs[p] EXCEPT !.pc = "dc_delete", !.count = Cardinality(records \ records')])
  /\ UNCHANGED <<variant, users, categories, currencies, nextId, now, issued>>

DeleteCategoryRow(p) ==
  /\ At(p, "dc_delete")
  /\ LET req == procs[p].req
     IN IF req.f.id \in CategoryIds /\ RestrictCategory(req.f.id)
        THEN categories' = {c \in categories : c.id # req.f.id} /\ Finish(p, Reply(req, 204, ""))
        ELSE UNCHANGED categories /\ Finish(p, InternalError(req))
  /\ UNCHANGED <<variant, users, currencies, records, nextId, now, issued>>

\* ------------------------------------------------------------ POST /currency
UpperChar(c) == IF c = "a" THEN "A" ELSE IF c = "b" THEN "B" ELSE c

ToUpperCase(s) == [i \in 1..Len(s) |-> UpperChar(s[i])]

\* part_001 stores code.trim().toUpperCase(), part_002 code.trim()
NormalizeCode(code) == IF variant = "db" THEN ToUpperCase(Trim(code)) ELSE Trim(code)

RawCodes == {<<>>, <<"a">>, <<"A">>}

ReqPostCurrency ==
  Requests("POST /currency", {[code |-> c, name |-> "Coin"] : c \in RawCodes}, [code |-> <<"a">>, name |-> "Coin"])

NewCurrency(code, name) == [id |-> nextId.currency, code |-> code, name |-> name]

PostCurrencySync(p, st) ==
  IF st.req.f.code = <<>> THEN Finish(p, Reply(st.req, 400, "Field 'code' is required"))
  ELSE Goto(p, [st EXCEPT !.pc = "pcur_create"])

BeginPostCurrency(p) ==
  /\ CanStart(p, "POST /currency")
  /\ nextId.currency + Cardinality(Inflight("POST /currency")) <= LimCurrencies
  /\ \E req \in ReqPostCurrency :
       IF Admitted(req) THEN PostCurrencySync(p, Admit(req)) ELSE Finish(p, Refusal(req))
  /\ UNCHANGED <<variant, store, nextId, now, issued>>

\* await prisma.currency.create(...): rejected by Currency_code_key
PostCurrencyCreate(p) ==
  /\ At(p, "pcur_create")
  /\ LET req == procs[p].req
         c == NewCurrency(NormalizeCode(req.f.code), req.f.name)
     IN /\ nextId' = [nextId EXCEPT !.currency = @ + 1]
        /\ IF CurrencyCodeUnique(c.code)
           THEN currencies' = currencies \cup {c} /\ Finish(p, ReplyData(req, 201, {c}))
           ELSE UNCHANGED currencies /\ Finish(p, InternalError(req))
  /\ UNCHANGED <<variant, users, categories, records, now, issued>>

\* ------------------------------------------------------------ DELETE /currency/:id
ReqDeleteCurrency == Requests("DELETE /currency", {[id |-> c] : c \in IdInputs(LimCurrencies)}, [id |-> 1])

\* part_001 counts the records that use the currency before deleting it
DeleteCurrencyPlan == IF variant = "db" THEN "dcur_count" ELSE "dcur_delete"

DeleteCurrencySync(p, st) ==
  IF st.req.f.id = Undefined THEN Finish(p, Reply(st.req, 400, "Invalid currency id"))
  ELSE Goto(p, [st EXCEPT !.pc = "dcur_find"])

BeginDeleteCurrency(p) ==
  /\ CanStart(p, "DELETE /currency")
  /\ \E req \in ReqDeleteCurrency :
       IF Admitted(req) THEN DeleteCurrencySync(p, Admit(req)) ELSE Finish(p, Refusal(req))
  /\ UNCHANGED <<variant, store, nextId, now, issued>>

DeleteCurrencyFind(p) ==
  /\ At(p, "dcur_find")
  /\ IF procs[p].req.f.id \notin CurrencyIds
     THEN Finish(p, Reply(procs[p].req, 404, "Currency not found"))
     ELSE Goto(p, [procs[p] EXCEPT !.pc = DeleteCurrencyPlan])
  /\ UNCHANGED <<variant, store, nextId, now, issued>>

CurrencyInUse(req) == Reply(req, 400, "Cannot delete currency: there are records using this currency")

\* const recordsCount = await prisma.record.count({ where: { currencyId } })
DeleteCurrencyCount(p) ==
  /\ At(p, "dcur_count")
  /\ IF \E r \in records : r.currencyId = procs[p].req.f.id
     THEN Finish(p, CurrencyInUse(procs[p].req))
     ELSE Goto(p, [procs[p] EXCEPT !.pc = "dcur_delete"])
  /\ UNCHANGED <<variant, store, nextId, now, issued>>

\* await prisma.currency.delete(...): Record_currencyId_fkey restricts it,
\* User_defaultCurrencyId_fkey sets the users' default to null
DeleteCurrencyRow(p) ==
  /\ At(p, "dcur_delete")
  /\ LET req == procs[p].req
     IN IF req.f.id \in CurrencyIds /\ RestrictCurrency(req.f.id)
        THEN /\ currencies' = {c \in currencies : c.id # req.f.id}
             /\ users' = SetNullDefaultCurrency(req.f.id)
             /\ Finish(p, Reply(req, 204, ""))
        ELSE UNCHANGED <<currencies, users>> /\ Finish(p, InternalError(req))
  /\ UNCHANGED <<variant, categories, records, nextId, now, issued>>

\* ------------------------------------------------------------ POST /record
Amounts == {10, Undefined}

\* well-typed bodies, one body for each field that can be missing, and a
\* body whose currencyId is not a number (routes.ts reads no currencyId: one
\* body that carries one)
ReqPostRecord ==
  LET currencyInputs == IF variant = "mem" THEN {Undefined} ELSE IdInputs(LimCurrencies)
  IN Requests("POST /record",
              {[userId |-> u, categoryId |-> c, amount |-> 10, currencyId |-> cur] :
                 u \in 1..LimUsers, c \in 1..LimCategories, cur \in currencyInputs}
              \cup {[userId |-> u, categoryId |-> c, amount |-> a, currencyId |-> Undefined] :
                      u \in {1, Undefined}, c \in {1, Undefined}, a \in Amounts}
              \cup {[userId |-> 1, categoryId |-> 1, amount |-> 10,
                     currencyId |-> IF variant = "mem" THEN 1 ELSE NotANumber]},
              [userId |-> 1, categoryId |-> 1, amount |-> 10, currencyId |-> Undefined])

NewRecord(userId, categoryId, currencyId, amount) ==
  [id |-> nextId.record, userId |-> userId, categoryId |-> categoryId, currencyId |-> currencyId, amount |-> amount]

MustBeNumbers(req) ==
  Reply(req, 400, IF variant = "auth" THEN "Fields 'userId', 'categoryId' and 'amount' must be numbers"
                  ELSE "Fields 'userId', 'categoryId' and 'amount' are required and must be numbers")

PostRecordSync(p, st) ==
  LET req == st.req
  IN IF req.f.userId = Undefined \/ req.f.categoryId = Undefined \/ req.f.amount = Undefined
     THEN Finish(p, MustBeNumbers(req))
          /\ UNCHANGED <<records, nextId>>
     ELSE IF variant # "mem" THEN Goto(p, [st EXCEPT !.pc = "pr_findUser"]) /\ UNCHANGED <<records, nextId>>
     ELSE IF req.f.userId \notin UserIds
     THEN Finish(p, Reply(req, 400, "User does not exist")) /\ UNCHANGED <<records, nextId>>
     ELSE IF req.f.categoryId \notin CategoryIds
     THEN Finish(p, Reply(req, 400, "Category does not exist")) /\ UNCHANGED <<records, nextId>>
     ELSE LET r == NewRecord(req.f.userId, req.f.categoryId, NoId, req.f.amount)
          IN /\ records' = records \cup {r}
             /\ nextId' = [nextId EXCEPT !.record = @ + 1]
             /\ Finish(p, ReplyData(req, 201, {r}))

BeginPostRecord(p) ==
  /\ CanStart(p, "POST /record")
  /\ nextId.record + Cardinality(Inflight("POST /record")) <= LimRecords
  /\ \E req \in ReqPostRecord :
       IF Admitted(req) THEN PostRecordSync(p, Admit(req)) ELSE Finish(p, Refusal(req)) /\ UNCHANGED <<records, nextId>>
  /\ UNCHANGED <<variant, users, categories, currencies, now, issued>>

\* const user = await prisma.user.findUnique(...): the row is kept
PostRecordFindUser(p) ==
  /\ At(p, "pr_findUser")
  /\ IF procs[p].req.f.userId \notin UserIds
     THEN Finish(p, Reply(procs[p].req, 400, "User does not exist"))
     ELSE Goto(p, [procs[p] EXCEPT !.pc = "pr_findCategory", !.user = UserById(procs[p].req.f.userId)])
  /\ UNCHANGED <<variant, store, nextId, now, issued>>

NoDefaultCurrency(req) == Reply(req, 400, "User has no default currency and no currencyId was provided")

\* finalCurrencyId when the body has no currencyId
DefaultCurrencyOf(user) == user.defaultCurrencyId

\* a handler that takes the user's default without testing it
DefaultAssumed(user) == FALSE

\* if (!user.defaultCurrencyId)
NoDefault(user) == user.defaultCurrencyId = NoId

\* the test that sends the handler to the currency lookup: part_001 has
\* typeof currencyId === "number", part_002 currencyId !== undefined && !== null
CurrencyGiven(currencyId) ==
  IF variant = "db" THEN currencyId \notin {Undefined, NotANumber} ELSE currencyId # Undefined

\* the category lookup, then the branch on currencyId (no await between)
PostRecordFindCategory(p) ==
  /\ At(p, "pr_findCategory")
  /\ LET st == procs[p]
     IN IF st.req.f.categoryId \notin CategoryIds
        THEN Finish(p, Reply(st.req, 400, "Category does not exist"))
        ELSE IF CurrencyGiven(st.req.f.currencyId)
        THEN IF st.req.f.currencyId = NotANumber
             THEN Finish(p, Reply(st.req, 400, "Invalid currency id"))
             ELSE Goto(p, [st EXCEPT !.pc = "pr_findCurrency"])
        ELSE IF NoDefault(st.user)
        THEN Finish(p, NoDefaultCurrency(st.req))
        ELSE Goto(p, [st EXCEPT !.pc = "pr_create", !.finalCurrencyId = DefaultCurrencyOf(st.user)])
  /\ UNCHANGED <<variant, store, nextId, now, issued>>

\* a handler that leaves the currency to the store's foreign key
PostRecordFindCurrencyUnchecked(p) ==
  /\ At(p, "pr_findCurrency")
  /\ Goto(p, [procs[p] EXCEPT !.pc = "pr_create", !.finalCurrencyId = procs[p].req.f.currencyId])
  /\ UNCHANGED <<variant, store, nextId, now, issued>>

PostRecordFindCurrency(p) ==
  /\ At(p, "pr_findCurrency")
  /\ LET st == procs[p]
     IN IF st.req.f.currencyId \notin CurrencyIds
        THEN Finish(p, Reply(st.req, 400, "Currency does not exist"))
        ELSE Goto(p, [st EXCEPT !.pc = "pr_create", !.finalCurrencyId = st.req.f.currencyId])
  /\ UNCHANGED <<variant, store, nextId, now, issued>>

\* await prisma.record.create(...): rejected by the three foreign keys; the
\* id is drawn from the sequence either way
PostRecordCreate(p) ==
  /\ At(p, "pr_create")
  /\ LET st == procs[p]
         r == NewRecord(st.req.f.userId, st.req.f.categoryId, st.finalCurrencyId, st.req.f.amount)
     IN /\ nextId' = [nextId EXCEPT !.record = @ + 1]
        /\ IF RecordFkOk(r.userId, r.categoryId, r.currencyId)
           THEN records' = records \cup {r} /\ Finish(p, ReplyData(st.req, 201, {r}))
           ELSE UNCHANGED records /\ Finish(p, InternalError(st.req))
  /\ UNCHANGED <<variant, users, categories, currencies, now, issued>>

\* ------------------------------------------------------------ GET /record
\* the query string: snake (user_id, category_id) or camel (userId, categoryId)
\* the parameters the handler reads: part_002 reads the camel ones
QueryStyle == IF variant = "auth" THEN "camel" ELSE "snake"

ReqListRecords ==
  Requests("GET /record",
           {[style |-> QueryStyle, user |-> u, category |-> c] : u \in IdInputs(LimUsers), c \in IdInputs(LimCategories)}
           \cup {[style |-> s, user |-> 1, category |-> c] : s \in {"snake", "camel"}, c \in {1, Undefined}}
           \cup {[style |-> QueryStyle, user |-> NotANumber, category |-> 1],
                 [style |-> QueryStyle, user |-> 1, category |-> NotANumber]},
           [style |-> QueryStyle, user |-> 1, category |-> Undefined])

UserFilter(req) == IF req.f.style = QueryStyle THEN req.f.user ELSE Undefined
CategoryFilter(req) == IF req.f.style = QueryStyle THEN req.f.category ELSE Undefined

Matching(req) ==
  {r \in records : /\ (UserFilter(req) # Undefined => r.userId = UserFilter(req))
                   /\ (CategoryFilter(req) # Undefined => r.categoryId = CategoryFilter(req))}

ListRecordsSync(p, st) ==
  LET req == st.req
  IN IF variant # "auth" /\ UserFilter(req) = Undefined /\ CategoryFilter(req) = Undefined
     THEN Finish(p, Reply(req, 400, "At least one of query parameters 'user_id' or 'category_id' is required"))
     ELSE IF UserFilter(req) = NotANumber
     THEN Finish(p, Reply(req, 400, IF variant = "auth" THEN "Invalid userId" ELSE "Invalid user_id"))
     ELSE IF CategoryFilter(req) = NotANumber
     THEN Finish(p, Reply(req, 400, IF variant = "auth" THEN "Invalid categoryId" ELSE "Invalid category_id"))
     ELSE IF variant = "mem" THEN Finish(p, ReplyData(req, 200, Matching(req)))
     ELSE Goto(p, [st EXCEPT !.pc = "gr_findMany"])

BeginListRecords(p) ==
  /\ CanStart(p, "GET /record")
  /\ \E req \in ReqListRecords :
       IF Admitted(req) THEN ListRecordsSync(p, Admit(req)) ELSE Finish(p, Refusal(req))
  /\ UNCHANGED <<variant, store, nextId, now, issued>>

CategoryById(id) == CHOOSE c \in categories : c.id = id

CurrencyById(id) == CHOOSE c \in currencies : c.id = id

\* include: { user: true, category: true, currency: true }: the record with
\* the whole rows it references
IncludeRelations(r) ==
  [id |-> r.id, userId |-> r.userId, categoryId |-> r.categoryId, currencyId |-> r.currencyId, amount |-> r.amount,
   user |-> UserById(r.userId), category |-> CategoryById(r.categoryId), currency |-> CurrencyById(r.currencyId)]

\* await prisma.record.findMany({ where, include })
ListRecordsFindMany(p) ==
  /\ At(p, "gr_findMany")
  /\ Finish(p, ReplyData(procs[p].req, 200, {IncludeRelations(r) : r \in Matching(procs[p].req)}))
  /\ UNCHANGED <<variant, store, nextId, now, issued>>

\* ------------------------------------------------------------ DELETE /record/:recordId
ReqDeleteRecord == Requests("DELETE /record", {[recordId |-> r] : r \in IdInputs(LimRecords)}, [recordId |-> 1])

DeleteRecordSync(p, st) ==
  LET req == st.req
  IN IF req.f.recordId = Undefined THEN Finish(p, Reply(req, 400, "Invalid record id")) /\ UNCHANGED records
     ELSE IF variant # "mem" THEN Goto(p, [st EXCEPT !.pc = "dr_find"]) /\ UNCHANGED records
     ELSE IF req.f.recordId \notin RecordIds THEN Finish(p, Reply(req, 404, "Record not found")) /\ UNCHANGED records
     ELSE records' = {r \in records : r.id # req.f.recordId} /\ Finish(p, Reply(req, 204, ""))

BeginDeleteRecord(p) ==
  /\ CanStart(p, "DELETE /record")
  /\ \E req \in ReqDeleteRecord :
       IF Admitted(req) THEN DeleteRecordSync(p, Admit(req)) ELSE Finish(p, Refusal(req)) /\ UNCHANGED records
  /\ UNCHANGED <<variant, users, categories, currencies, nextId, now, issued>>

DeleteRecordFind(p) ==
  /\ At(p, "dr_find")
  /\ IF procs[p].req.f.recordId \notin RecordIds
     THEN Finish(p, Reply(procs[p].req, 404, "Record not found"))
     ELSE Goto(p, [procs[p] EXCEPT !.pc = "dr_delete"])
  /\ UNCHANGED <<variant, store, nextId, now, issued>>

DeleteRecordRow(p) ==
  /\ At(p, "dr_delete")
  /\ LET req == procs[p].req
     IN IF req.f.recordId \in RecordIds
        THEN records' = {r \in records : r.id # req.f.recordId} /\ Finish(p, Reply(req, 204, ""))
        ELSE UNCHANGED records /\ Finish(p, InternalError(req))
  /\ UNCHANGED <<variant, users, categories, currencies, nextId, now, issued>>

\* ------------------------------------------------------------ the client
\* the response of the last step is read by its client
Deliver ==
  /\ resp # NoResp
  /\ resp' = NoResp
  /\ UNCHANGED <<variant, store, nextId, procs, now, issued>>

\* ------------------------------------------------------------ specification
Next ==
  \/ Deliver
  \/ \E p \in Slots : BeginHealthcheck(p)
  \/ \E p \in Slots : BeginPostUser(p)
  \/ \E p \in Slots : PostUserFind(p)
  \/ \E p \in Slots : PostUserCreate(p)
  \/ \E p \in Slots : BeginLogin(p)
  \/ \E p \in Slots : LoginFind(p)
  \/ \E p \in Slots : BeginDeleteUser(p)
  \/ \E p \in Slots : DeleteUserFind(p)
  \/ \E p \in Slots : DeleteUserRecords(p)
  \/ \E p \in Slots : DeleteUserRow(p)
  \/ \E p \in Slots : BeginPatchCurrency(p)
  \/ \E p \in Slots : PatchCurrencyFindUser(p)
  \/ \E p \in Slots : PatchCurrencyFindCurrency(p)
  \/ \E p \in Slots : PatchCurrencyUpdate(p)
  \/ \E p \in Slots : BeginPostCategory(p)
  \/ \E p \in Slots : PostCategoryCreate(p)
  \/ \E p \in Slots : BeginDeleteCategory(p)
  \/ \E p \in Slots : DeleteCategoryFind(p)
  \/ \E p \in Slots : DeleteCategoryRecords(p)
  \/ \E p \in Slots : DeleteCategoryRow(p)
  \/ \E p \in Slots : BeginPostCurrency(p)
  \/ \E p \in Slots : PostCurrencyCreate(p)
  \/ \E p \in Slots : BeginDeleteCurrency(p)
  \/ \E p \in Slots : DeleteCurrencyFind(p)
  \/ \E p \in Slots : DeleteCurrencyCount(p)
  \/ \E p \in Slots : DeleteCurrencyRow(p)
  \/ \E p \in Slots : BeginPostRecord(p)
  \/ \E p \in Slots : PostRecordFindUser(p)
  \/ \E p \in Slots : PostRecordFindCategory(p)
  \/ \E p \in Slots : PostRecordFindCurrency(p)
  \/ \E p \in Slots : PostRecordCreate(p)
  \/ \E p \in Slots : BeginListRecords(p)
  \/ \E p \in Slots : ListRecordsFindMany(p)
  \/ \E p \in Slots : BeginDeleteRecord(p)
  \/ \E p \in Slots : DeleteRecordFind(p)
  \/ \E p \in Slots : DeleteRecordRow(p)

Spec == Init /\ [][Next]_vars

SpecSeq == InitSeq /\ [][Next]_vars

\* ------------------------------------------------------------ the auth module on its own
\* The authenticated variant with the clock running: signup, login, and
\* requests to routes behind the middleware under every shape of header.
InitAuth ==
  /\ variant = "auth"
  /\ users = {} /\ categories = {} /\ currencies = {} /\ records = {}
  /\ nextId = [user |-> 1, category |-> 1, currency |-> 1, record |-> 1]
  /\ procs = [p \in 1..MaxInflight |-> Idle]
  /\ resp = NoResp
  /\ now = 0
  /\ issued = {}

Tick ==
  /\ resp = NoResp
  /\ now < MaxTicks * TickSeconds
  /\ now' = now + TickSeconds
  /\ UNCHANGED <<variant, store, nextId, procs, resp, issued>>

Signup(p) ==
  /\ FreeSlot(p)
  /\ nextId.user + Cardinality(Inflight("POST /user")) <= MaxUsers
  /\ \E req \in ReqPostUser :
       IF Admitted(req) THEN PostUserSync(p, Admit(req)) ELSE Finish(p, Refusal(req)) /\ UNCHANGED <<users, nextId>>
  /\ UNCHANGED <<variant, categories, currencies, records, now, issued>>

Login(p) ==
  /\ FreeSlot(p)
  /\ Cardinality(issued) + Cardinality(Inflight("POST /auth/login")) < MaxTokens
  /\ \E req \in ReqLogin :
       IF Admitted(req) THEN LoginSync(p, Admit(req)) ELSE Finish(p, Refusal(req))
  /\ UNCHANGED <<variant, store, nextId, now, issued>>

Protected(p) ==
  /\ FreeSlot(p)
  /\ \E h \in AllHeaders :
       \/ /\ nextId.category + Cardinality(Inflight("POST /category")) <= LimCategories
          /\ LET req == Req("POST /category", h, [name |-> "Food"])
             IN IF Admitted(req) THEN PostCategorySync(p, Admit(req))
                ELSE Finish(p, Refusal(req)) /\ UNCHANGED <<categories, nextId>>
          /\ UNCHANGED <<users, records>>
       \/ /\ LET req == Req("DELETE /user", h, [userId |-> 1])
             IN IF Admitted(req) THEN DeleteUserSync(p, Admit(req))
                ELSE Finish(p, Refusal(req)) /\ UNCHANGED <<users, records>>
          /\ UNCHANGED <<categories, nextId>>
  /\ UNCHANGED <<variant, currencies, now, issued>>

NextAuth ==
  \/ Deliver
  \/ Tick
  \/ \E p \in Slots : Signup(p)
  \/ \E p \in Slots : PostUserFind(p)
  \/ \E p \in Slots : PostUserCreate(p)
  \/ \E p \in Slots : Login(p)
  \/ \E p \in Slots : LoginFind(p)
  \/ \E p \in Slots : Protected(p)
  \/ \E p \in Slots : PostCategoryCreate(p)
  \/ \E p \in Slots : DeleteUserFind(p)
  \/ \E p \in Slots : DeleteUserRow(p)

SpecAuth == InitAuth /\ [][NextAuth]_vars

\* ------------------------------------------------------------ properties
\* a response to a request of `route` has just been sent
Answered(route) == resp # NoResp /\ resp.req.route = route

\* C1: in every variant DELETE /user/:userId on an existing user, one that
\* owns records included, answers 204, and when it has answered the store
\* holds neither that user nor a record with that userId.
\* (A request at a time: the user exists unless the answer is 404.)
C1_DeleteUserCascades ==
  (Answered("DELETE /user") /\ resp.status \notin {400, 401, 404}) =>
    /\ resp.status = 204
    /\ resp.req.f.userId \notin UserIds
    /\ \A r \in records : r.userId # resp.req.f.userId

\* C2: in every variant DELETE /category?id=C on an existing category answers
\* 204 and leaves neither category C nor a record with categoryId C; no step
\* of the request changes a record of another category, another category, a
\* user or a currency.
C2_DeleteCategoryCascades ==
  [][\A c \in 1..MaxCategories :
       LET mine(st) == st.pc # "idle" /\ st.req.route = "DELETE /category" /\ st.req.f.id = c
           answered == resp' # NoResp /\ resp'.req.route = "DELETE /category" /\ resp'.req.f.id = c
           acts == answered \/ \E p \in Slots : procs'[p] # procs[p] /\ (mine(procs[p]) \/ mine(procs'[p]))
       IN /\ acts =>
               /\ users' = users
               /\ currencies' = currencies
               /\ {x \in categories' : x.id # c} = {x \in categories : x.id # c}
               /\ {r \in records' : r.categoryId # c} = {r \in records : r.categoryId # c}
          /\ (answered /\ resp'.status \notin {400, 401, 404}) =>
               /\ resp'.status = 204
               /\ c \notin CategoryIds'
               /\ \A r \in records' : r.categoryId # c]_vars

\* a category with a record was deleted while the record of another category
\* stayed
C2_Witness ==
  /\ Answered("DELETE /category") /\ resp.status = 204
  /\ nextId.record = 3
  /\ \E r \in records : records = {r} /\ r.categoryId # resp.req.f.id

\* C3: in both persistent variants DELETE /currency/:id on an existing
\* currency that a record references answers 400 "Cannot delete currency:
\* there are records using this currency", the currency and the records
\* staying as they are.
C3_CurrencyInUseIs400 ==
  (/\ variant # "mem"
   /\ Answered("DELETE /currency") /\ resp.status # 401
   /\ resp.req.f.id \in CurrencyIds
   /\ \E r \in records : r.currencyId = resp.req.f.id) =>
    /\ resp.status = 400
    /\ resp.message = "Cannot delete currency: there are records using this currency"

\* C4: in the persistent variants, in every reachable state and under any
\* interleaving of requests, the userId, categoryId and currencyId of every
\* record name an existing user, category and currency.
C4_RecordReferencesExist ==
  variant # "mem" =>
    \A r \in records : r.userId \in UserIds /\ r.categoryId \in CategoryIds /\ r.currencyId \in CurrencyIds

\* the store rejected the insert of a record whose parent row went away
\* after the handler had looked it up
C4_Witness == variant # "mem" /\ Answered("POST /record") /\ resp.status = 500

\* the routes the authenticated variant is to serve without a token, and the
\* error codes of a request turned away for its Authorization header
OpenRoutes == {"GET /healthcheck", "POST /user", "POST /auth/login"}
AuthErrors == {"authorization_required", "invalid_token", "token_expired"}

\* the header is "Bearer <t>" (anything after a further space is not read)
Presents(req, t) ==
  /\ req.hasAuth
  /\ Len(req.auth) >= 3
  /\ SubSeq(req.auth, 1, 3) = <<Word("Bearer"), Space, t>>
  /\ Len(req.auth) > 3 => req.auth[4] = Space

CarriesValidToken(req) == \E t \in issued : Presents(req, t) /\ now < t.exp

\* C5: in the authenticated variant the handler of a route other than
\* GET /healthcheck, POST /user and POST /auth/login runs only for a request
\* whose Authorization header is "Bearer <token>" with a token that verifies;
\* any other request to such a route is answered 401 and changes nothing in
\* the store; the three public routes are never turned away for a token.
C5_ProtectedRoutesNeedToken ==
  [][variant = "auth" =>
       /\ \A p \in Slots :
            (procs[p].pc = "idle" /\ procs'[p].pc # "idle" /\ procs'[p].req.route \notin OpenRoutes)
              => CarriesValidToken(procs'[p].req)
       /\ (resp' # NoResp /\ procs' = procs /\ resp'.req.route \notin OpenRoutes /\ ~ CarriesValidToken(resp'.req))
            => (resp'.status = 401 /\ store' = store)
       /\ (resp' # NoResp /\ resp'.req.route \in OpenRoutes) => resp'.message \notin AuthErrors
       /\ store' # store =>
            \/ resp' # NoResp /\ resp'.req.route \in OpenRoutes
            \/ \E p \in Slots : /\ procs[p].pc # "idle" /\ procs'[p] # procs[p]
                                /\ (procs[p].req.route \in OpenRoutes \/ CarriesValidToken(procs[p].req))]_vars

\* a request without a token to delete a user who exists was answered 401
C5_Witness ==
  /\ variant = "auth"
  /\ Answered("DELETE /user") /\ resp.status = 401
  /\ ~ resp.req.hasAuth
  /\ resp.req.f.userId \in UserIds

C7_TokenLifetime ==
  [][variant = "auth" =>
       LET sent(req, t) == req.hasAuth /\ req.auth = <<Word("Bearer"), Space, t>>
           arrived(p) == procs[p].pc = "idle" /\ procs'[p].pc # "idle" /\ procs'[p].req.route \notin OpenRoutes
           answered == resp' # NoResp /\ procs' = procs /\ resp'.req.route \notin OpenRoutes
           rejected(code) == resp'.status = 401 /\ resp'.message = code /\ store' = store
       IN /\ \A t \in issued :
               /\ \A p \in Slots : (arrived(p) /\ sent(procs'[p].req, t)) => (now < t.exp /\ procs'[p].userId = t.userId)
               /\ (answered /\ sent(resp'.req, t)) =>
                    IF now < t.exp THEN resp'.message \notin AuthErrors ELSE rejected("token_expired")
          /\ \A t \in ForgedTokens \cup {Word("garbage")} :
               /\ \A p \in Slots : ~ (arrived(p) /\ sent(procs'[p].req, t))
               /\ (answered /\ sent(resp'.req, t)) => rejected("invalid_token")
          /\ (resp' # NoResp /\ resp'.req.route = "POST /auth/login" /\ resp'.status = 200) =>
               /\ resp'.token \in issued'
               /\ resp'.token.exp = now + 3600
               /\ resp'.token.sig = "server"
               /\ \E u \in users : u.id = resp'.token.userId /\ u.email = NormalizeEmail(resp'.req.f.email)]_vars

\* an issued token was presented after its expiry and turned away
C7_Witness ==
  /\ resp # NoResp /\ resp.req.route \notin OpenRoutes
  /\ resp.status = 401 /\ resp.message = "token_expired"
  /\ \E t \in issued : resp.req.auth = <<Word("Bearer"), Space, t>> /\ now > t.exp

\* C8: POST /auth/login with an email and a password, where no user has the
\* email or the password does not match the user's hash, answers 401 with
\* the body {"message": "Invalid email or password"} and no token, the same
\* response in both cases.
C8_LoginFailuresAlike ==
  (Answered("POST /auth/login") /\ resp.req.f.email # <<>> /\ resp.req.f.password # "") =>
    LET email == ToLowerCase(Trim(resp.req.f.email))
        matches == \E u \in users : u.email = email /\ u.passwordHash = [hashOf |-> resp.req.f.password]
    IN ~ matches =>
         resp = [req |-> resp.req, status |-> 401, message |-> "Invalid email or password",
                 data |-> {}, token |-> NoToken]

\* the wrong password was given for the email of a registered user
C8_Witness ==
  /\ Answered("POST /auth/login") /\ resp.status = 401
  /\ \E u \in users : u.email = ToLowerCase(Trim(resp.req.f.email)) /\ u.passwordHash.hashOf # resp.req.f.password

\* C9: in the authenticated variant a POST /user whose normalized email is
\* that of a registered user answers 400 "User with this email already
\* exists" and persists no user, also when two signups with the same email
\* are in flight at once: one user with the email exists afterwards and the
\* signup that lost is answered 400.
C9_DuplicateEmailIs400 ==
  variant = "auth" =>
    /\ \A u1, u2 \in users : u1.email = u2.email => u1 = u2
    /\ (/\ Answered("POST /user")
        /\ resp.req.f.name # "" /\ resp.req.f.email # <<>> /\ Len(resp.req.f.password) >= 6
        /\ resp.status # 201) =>
         (resp.status = 400 /\ resp.message = "User with this email already exists")

\* C10: in the persistent variants POST /record without currencyId, for an
\* existing user whose defaultCurrencyId is null and an existing category,
\* answers 400 "User has no default currency and no currencyId was provided",
\* and no step of the request changes the records.
C10_NoDefaultCurrencyIs400 ==
  [][variant # "mem" =>
       LET case(req) ==
             /\ req.route = "POST /record"
             /\ req.f.currencyId = Undefined /\ req.f.amount # Undefined
             /\ req.f.userId \in UserIds /\ req.f.categoryId \in CategoryIds
             /\ \A u \in users : u.id = req.f.userId => u.defaultCurrencyId = NoId
       IN /\ \A p \in Slots :
               (/\ procs'[p] # procs[p]
                /\ \/ procs[p].pc # "idle" /\ case(procs[p].req)
                   \/ procs'[p].pc # "idle" /\ case(procs'[p].req)) => records' = records
          /\ (resp' # NoResp /\ case(resp'.req) /\ resp'.status # 401) =>
               /\ resp'.status = 400
               /\ resp'.message = "User has no default currency and no currencyId was provided"
               /\ records' = records]_vars

\* the request was made and answered 400 for the missing default
C10_Witness ==
  /\ Answered("POST /record") /\ resp.status = 400
  /\ resp.req.f.currencyId = Undefined
  /\ resp.req.f.userId \in UserIds /\ resp.req.f.categoryId \in CategoryIds
  /\ UserById(resp.req.f.userId).defaultCurrencyId = NoId

\* what POST /record is to answer for the first of user, category and
\* (where `withCurrency`) supplied currency that does not exist; "" if none
FirstMissing(f, withCurrency) ==
  IF f.userId \notin UserIds THEN "User does not exist"
  ELSE IF f.categoryId \notin CategoryIds THEN "Category does not exist"
  ELSE IF withCurrency /\ f.currencyId > 0 /\ f.currencyId \notin CurrencyIds THEN "Currency does not exist"
  ELSE ""

\* C11: in every variant a POST /record whose userId, categoryId or supplied
\* currencyId names no existing user, category or currency answers 400 with
\* "<Entity> does not exist", the first missing of user, category, currency
\* giving the message, and creates no record.
C11_MissingEntityIs400 ==
  [][(/\ resp' # NoResp /\ resp'.req.route = "POST /record" /\ resp'.status # 401
      /\ resp'.req.f.userId > 0 /\ resp'.req.f.categoryId > 0 /\ resp'.req.f.amount # Undefined
      /\ FirstMissing(resp'.req.f, TRUE) # "") =>
       /\ resp'.status = 400
       /\ resp'.message = FirstMissing(resp'.req.f, TRUE)
       /\ records' = records]_vars

\* C11 as the code has it: the currency is looked up in the persistent
\* variants only; the in-memory variant reads no currencyId.
C11_MissingEntityIs400Amended ==
  [][(/\ resp' # NoResp /\ resp'.req.route = "POST /record" /\ resp'.status # 401
      /\ resp'.req.f.userId > 0 /\ resp'.req.f.categoryId > 0 /\ resp'.req.f.amount # Undefined
      /\ FirstMissing(resp'.req.f, variant # "mem") # "") =>
       /\ resp'.status = 400
       /\ resp'.message = FirstMissing(resp'.req.f, variant # "mem")
       /\ records' = records]_vars

\* category and supplied currency were both missing and the category gave
\* the message
C11_Witness ==
  /\ variant # "mem"
  /\ Answered("POST /record") /\ resp.status = 400 /\ resp.message = "Category does not exist"
  /\ resp.req.f.userId \in UserIds
  /\ resp.req.f.currencyId > 0 /\ resp.req.f.currencyId \notin CurrencyIds

\* C12: in the persistent variants a POST /record whose body supplies a
\* currencyId either creates a record with exactly that currencyId, an
\* existing currency, or answers 400; the user's defaultCurrencyId is used
\* only when currencyId is omitted, and the record created then has the
\* defaultCurrencyId the handler read for the user.
\* (A request at a time: the default read is the one in the store.)
C12_CurrencyResolution ==
  [][(variant # "mem" /\ resp' # NoResp /\ resp'.req.route = "POST /record" /\ resp'.status # 401) =>
       LET f == resp'.req.f
           created == records' \ records
       IN /\ resp'.status = 201 <=> created # {}
          /\ resp'.status = 201 => resp'.data = created
          /\ f.currencyId # Undefined =>
               \/ resp'.status = 400
               \/ /\ resp'.status = 201
                  /\ f.currencyId \in CurrencyIds
                  /\ \A r \in created : r.currencyId = f.currencyId
          /\ (f.currencyId = Undefined /\ resp'.status = 201) =>
               \A r \in created : \E u \in users : u.id = f.userId /\ r.currencyId = u.defaultCurrencyId]_vars

\* C13: in every variant GET /record with neither user_id nor category_id
\* answers 400 and returns no record; with at least one of them it answers
\* 200 with exactly the records that match every filter supplied.
\* (Filters that are numbers; a request at a time.)
C13_ListNeedsFilter ==
  (Answered("GET /record") /\ resp.status # 401) =>
    LET f == resp.req.f
        u == IF f.style = "snake" THEN f.user ELSE Undefined
        c == IF f.style = "snake" THEN f.category ELSE Undefined
        matching == {r \in records : (u # Undefined => r.userId = u) /\ (c # Undefined => r.categoryId = c)}
    IN IF u = Undefined /\ c = Undefined
       THEN resp.status = 400 /\ resp.data = {}
       ELSE (u # NotANumber /\ c # NotANumber) =>
              (resp.status = 200 /\ {r.id : r \in resp.data} = {r.id : r \in matching})

\* the ids of the rows of a table
IdsOf(table) ==
  IF table = "user" THEN UserIds ELSE IF table = "category" THEN CategoryIds
  ELSE IF table = "currency" THEN CurrencyIds ELSE RecordIds

\* C14: for each of User, Category, Currency and Record, the id that a create
\* returns is greater than the id returned by every earlier create of the
\* type, whatever deletions came between, and an id freed by a delete is not
\* handed out again. Stated on the id sequence of the type: it never goes
\* back, every stored id is below it, and a create returns a new id that is
\* at or above the sequence's value before the create and below its value
\* after; so the id is above all ids returned before.
C14_IdsNeverReused ==
  [][\A table \in {"user", "category", "currency", "record"} :
       /\ nextId'[table] >= nextId[table]
       /\ \A id \in IdsOf(table)' : id < nextId'[table]
       /\ (resp' # NoResp /\ resp'.status = 201 /\ resp'.req.route = "POST /" \o table) =>
            /\ resp'.data # {}
            /\ \A d \in resp'.data :
                 /\ nextId[table] <= d.id /\ d.id < nextId'[table]
                 /\ d.id \notin IdsOf(table) /\ d.id \in IdsOf(table)']_vars

\* a user was created after user 1 had been deleted, and is not user 1
C14_Witness == Answered("POST /user") /\ resp.status = 201 /\ UserIds = {2}

\* C15: in both persistent variants PATCH /user/:userId/currency answers 404
\* when the user does not exist and 400 when the currency does not exist, and
\* leaves the users as they were in both cases; when both exist it sets that
\* user's defaultCurrencyId to the given currency, changes no other row, and
\* answers 200 with the updated user.
C15_PatchCurrency ==
  [][(variant # "mem" /\ resp = NoResp /\ resp' # NoResp /\ resp'.req.route = "PATCH /user/currency"
        /\ resp'.status # 401 /\ resp'.req.f.userId # Undefined /\ resp'.req.f.currencyId # Undefined) =>
       LET f == resp'.req.f
       IN IF f.userId \notin UserIds THEN resp'.status = 404 /\ users' = users
          ELSE IF f.currencyId \notin CurrencyIds THEN resp'.status = 400 /\ users' = users
          ELSE /\ resp'.status = 200
               /\ users' = {IF u.id = f.userId THEN [u EXCEPT !.defaultCurrencyId = f.currencyId] ELSE u : u \in users}
               /\ \A d \in resp'.data : d.id = f.userId /\ d.defaultCurrencyId = f.currencyId
               /\ resp'.data # {}
               /\ UNCHANGED <<categories, currencies, records>>]_vars

\* C16: POST /currency with a code that an existing Currency already has
\* answers 400 (a conflict response) and creates no Currency, and the codes
\* of the currencies are pairwise distinct in every reachable state.
C16_DuplicateCodeIs400 ==
  [][/\ \A c, d \in currencies' : c.code = d.code => c = d
     /\ (variant # "mem" /\ resp = NoResp /\ resp' # NoResp /\ resp'.req.route = "POST /currency"
           /\ resp'.status # 401 /\ resp'.req.f.code # <<>>
           /\ \E c \in currencies : c.code = NormalizeCode(resp'.req.f.code)) =>
          (resp'.status = 400 /\ currencies' = currencies)]_vars

\* C17: in every reachable state every User's defaultCurrencyId is null or
\* the id of an existing Currency, also after DELETE /currency/:id removed a
\* currency that was a user's default, and under any interleaving of
\* PATCH /user/:userId/currency with DELETE /currency/:id.
C17_DefaultCurrencyExists ==
  \A u \in users : u.defaultCurrencyId = NoId \/ u.defaultCurrencyId \in CurrencyIds

\* a PATCH found its currency, a DELETE removed that currency before the
\* PATCH's update, and the update was rejected: the user is there, the
\* currency is not
C17_Witness ==
  /\ variant # "mem" /\ Answered("PATCH /user/currency") /\ resp.status = 500
  /\ resp.req.f.userId \in UserIds /\ resp.req.f.currencyId \notin CurrencyIds

\* C18: in the authenticated variant no response body contains a user's
\* passwordHash: not that of signup, login, GET /user/:userId, GET /users or
\* PATCH /user/:userId/currency, and not in a user joined into the records
\* that GET /record/:recordId and GET /record return.
C18_NoPasswordHashInBody ==
  (variant = "auth" /\ resp # NoResp) =>
    \A d \in resp.data :
      /\ "passwordHash" \notin DOMAIN d
      /\ "user" \in DOMAIN d => "passwordHash" \notin DOMAIN d.user

\* C19: in both persistent variants the cascades of DELETE /user/:userId and
\* DELETE /category are all-or-nothing, also when a POST /record for the same
\* parent runs between their store calls: a request that finishes with a
\* status other than 204 while the parent still exists has removed none of
\* the parent's records.
C19_CascadeAllOrNothing ==
  [][\A p \in Slots :
       /\ (variant # "mem" /\ procs[p].pc = "du_delete" /\ procs'[p].pc = "idle"
             /\ resp'.status # 204 /\ procs[p].req.f.userId \in UserIds') => procs[p].count = 0
       /\ (variant # "mem" /\ procs[p].pc = "dc_delete" /\ procs'[p].pc = "idle"
             /\ resp'.status # 204 /\ procs[p].req.f.id \in CategoryIds') => procs[p].count = 0]_vars

====
